---- MODULE Spec2Model ----
(***************************************************************************)
(* Model of the SDG Progress Monitor core (src/app.py):                    *)
(*   - progress_status: the pace-based 2030 check;                         *)
(*   - _score_series_key and the best-key loop of _un_series_data_via_sdmx,*)
(*     its time-dimension lookup and its extraction loop;                  *)
(*   - the quick-status row of tab_overview, which calls progress_status.  *)
(*                                                                         *)
(* Numbers.  Python floats are modelled as tagged records                  *)
(*   [k, n, d]: k = "fin" is the exact rational n/d (d > 0), k = "inf" is  *)
(*   +inf (n = 1) or -inf (n = -1), k = "nan" is NaN, k = "none" is None,  *)
(*   k = "str" is the empty string "", and k = "zerodiv" / "typeerror"     *)
(*   mark a raised ZeroDivisionError / TypeError.  Finite arithmetic is    *)
(*   exact: for the small integer inputs of this model two different rates *)
(*   differ by far more than one ulp, and equal rationals round to the     *)
(*   same double, so the comparisons pace >= 1.0 and pace >= 0.5 agree     *)
(*   with IEEE-754 doubles.  Rounding is not modelled: overflow and the    *)
(*   underflow of a quotient of subnormal size to 0.0 lie outside these    *)
(*   numbers.                                                              *)
(* Status labels are written without the leading emoji of the source.      *)
(***************************************************************************)
EXTENDS Integers, Sequences, FiniteSets, TLC

VARIABLES
    pc,           \* which component runs and where it stands
    baseline,     \* progress_status argument
    latest,       \* progress_status argument
    latest_year,  \* progress_status argument (an integer year or None)
    target,       \* progress_status argument (number, None or "")
    better,       \* progress_status argument ("up" / "down")
    ret,          \* what progress_status returned
    series_dims,  \* js["structure"]["dimensions"]["series"]
    sers,         \* ds["series"] as the ordered list of (key, series) items
    pos,          \* number of items of sers the best-key loop has consumed
    best_key,     \* best_key of the loop
    best_score,   \* best_score of the loop
    score_key,    \* the key argument of a call of _score_series_key
    score_ret,    \* what that call returned
    obs_dims,     \* js["structure"]["dimensions"]["observation"]
    yr1,          \* _un_series_data_via_sdmx argument: first year asked for
    yr2,          \* _un_series_data_via_sdmx argument: last year asked for
    time_pos,     \* time_pos: <<>> is None, <<i>> is the index i
    obs_pos,      \* number of observations the extraction loop has consumed
    recs,         \* recs of the extraction loop
    outcome,      \* how _un_series_data_via_sdmx ended
    df_i,         \* the rows of the indicator's frame in a quick-status row
    row_status,   \* status of the quick-status row
    row_prog,     \* prog of the quick-status row
    retries,      \* _safe_get argument
    backoff,      \* _safe_get argument
    attempt_i,    \* the loop variable i of _safe_get
    last_exc,     \* last_exc of _safe_get
    requests,     \* how each requests.get attempt made so far went
    slept,        \* the durations handed to time.sleep so far
    get_ret       \* what _safe_get returned or raised

vars == <<pc, baseline, latest, latest_year, target, better, ret,
          series_dims, sers, pos, best_key, best_score, score_key, score_ret,
          obs_dims, yr1, yr2, time_pos, obs_pos, recs, outcome,
          df_i, row_status, row_prog,
          retries, backoff, attempt_i, last_exc, requests, slept, get_ret>>

evalVars == <<baseline, latest, latest_year, target, better, ret>>
sdmxVars == <<series_dims, sers, pos, best_key, best_score>>
scoreVars == <<score_key, score_ret>>
extractVars == <<obs_dims, yr1, yr2, time_pos, obs_pos, recs, outcome>>
callerVars == <<df_i, row_status, row_prog>>
getVars == <<retries, backoff, attempt_i, last_exc, requests, slept, get_ret>>

----------------------------------------------------------------------------
(* Program constants *)

BASELINE_YEAR == 2015
TARGET_YEAR == 2030

(* Bounds of the model *)

\* finite inputs are the integers -MaxVal..MaxVal and the scenario values
MaxVal == 2
\* latest_year ranges over BASELINE_YEAR - YearsBefore .. TARGET_YEAR + YearsAfter
YearsBefore == 1
YearsAfter == 2

----------------------------------------------------------------------------
(* Python values *)

None == [k |-> "none", n |-> 0, d |-> 1]
EmptyStr == [k |-> "str", n |-> 0, d |-> 1]
NaN == [k |-> "nan", n |-> 0, d |-> 1]
ZeroDivisionError == [k |-> "zerodiv", n |-> 0, d |-> 1]
TypeError == [k |-> "typeerror", n |-> 0, d |-> 1]
Inf(s) == [k |-> "inf", n |-> s, d |-> 1]
Fin(a, b) == IF b < 0 THEN [k |-> "fin", n |-> -a, d |-> -b]
                      ELSE [k |-> "fin", n |-> a, d |-> b]

Sign(i) == IF i > 0 THEN 1 ELSE IF i < 0 THEN -1 ELSE 0

IsNone(x) == x.k = "none"
IsNan(x) == x.k = "nan"
IsFin(x) == x.k = "fin"
IsInf(x) == x.k = "inf"
IsFloat(x) == x.k \in {"fin", "inf", "nan"}
Raised(x) == x.k \in {"zerodiv", "typeerror"}

\* x == 0 for a float x
IsZero(x) == x.k = "fin" /\ x.n = 0

\* bool(x) for a float x: every float but 0.0 is true (NaN and inf included)
Truthy(x) == ~IsZero(x)

\* a - b on floats; None or a string as an operand raises TypeError, and an
\* operand that already raised stays raised
FSub(a, b) ==
    IF Raised(a) THEN a
    ELSE IF Raised(b) THEN b
    ELSE IF ~IsFloat(a) \/ ~IsFloat(b) THEN TypeError
    ELSE IF IsNan(a) \/ IsNan(b) THEN NaN
    ELSE IF IsFin(a) /\ IsFin(b) THEN Fin(a.n * b.d - b.n * a.d, a.d * b.d)
    ELSE IF IsInf(a) /\ IsInf(b) THEN (IF a.n = b.n THEN NaN ELSE a)
    ELSE IF IsInf(a) THEN a
    ELSE Inf(-b.n)

\* a / b on floats: a zero divisor raises, whatever the dividend
FDiv(a, b) ==
    IF Raised(a) THEN a
    ELSE IF Raised(b) THEN b
    ELSE IF ~IsFloat(a) \/ ~IsFloat(b) THEN TypeError
    ELSE IF IsZero(b) THEN ZeroDivisionError
    ELSE IF IsNan(a) \/ IsNan(b) THEN NaN
    ELSE IF IsFin(a) /\ IsFin(b) THEN Fin(a.n * b.d, a.d * b.n)
    ELSE IF IsInf(a) /\ IsInf(b) THEN NaN
    ELSE IF IsInf(a) THEN Inf(a.n * Sign(b.n))
    ELSE Fin(0, 1)

\* a >= b on floats: false as soon as one side is NaN
FGe(a, b) ==
    /\ a.k \in {"fin", "inf"}
    /\ b.k \in {"fin", "inf"}
    /\ IF IsInf(a) /\ IsInf(b) THEN a.n >= b.n
       ELSE IF IsInf(a) THEN a.n > 0
       ELSE IF IsInf(b) THEN b.n < 0
       ELSE a.n * b.d >= b.n * a.d

\* a <= b on floats
FLe(a, b) == FGe(b, a)

\* a == b on floats
FEq(a, b) == FGe(a, b) /\ FGe(b, a)

\* a < b on floats
FLt(a, b) == FLe(a, b) /\ ~FGe(a, b)

\* max(1, i) on integers
Max1(i) == IF i > 1 THEN i ELSE 1

----------------------------------------------------------------------------
(* progress_status *)

\* the guard "x is None or (isinstance(x, float) and math.isnan(x))"
NoneOrNan(x) == IsNone(x) \/ IsNan(x)

\* the result tuple (status label, progress); raised marks an exception
\* leaving the function instead of a return
Return(status, progress) == [status |-> status, progress |-> progress, raised |-> FALSE]
Raise == [status |-> "raised", progress |-> None, raised |-> TRUE]

\* variant: the zero-width window is not guarded
ProgressUp_Unguarded(b, l, t) == FDiv(FSub(l, b), FSub(t, b))

\* "(latest - baseline) / (target - baseline) if (target - baseline) else None"
ProgressUp(b, l, t) ==
    IF Truthy(FSub(t, b)) THEN FDiv(FSub(l, b), FSub(t, b)) ELSE None

\* variant: the numerator is not mirrored for "down"
ProgressDown_NotMirrored(b, l, t) ==
    IF Truthy(FSub(b, t)) THEN FDiv(FSub(l, b), FSub(b, t)) ELSE None

\* "(baseline - latest) / (baseline - target) if (baseline - target) else None"
ProgressDown(b, l, t) ==
    IF Truthy(FSub(b, t)) THEN FDiv(FSub(b, l), FSub(b, t)) ELSE None

\* "act_rate / req_rate if req_rate not in (0, None) else 0.0"
Pace(act_rate, req_rate) ==
    IF ~IsZero(req_rate) /\ ~IsNone(req_rate) THEN FDiv(act_rate, req_rate)
    ELSE Fin(0, 1)

\* variant: on track needs pace > 1.0
Classify_StrictOnTrack(pace, progress) ==
    IF FGe(pace, Fin(1, 1)) /\ ~FGe(Fin(1, 1), pace) THEN Return("on track", progress)
    ELSE IF FGe(pace, Fin(1, 2)) THEN Return("needs acceleration", progress)
    ELSE Return("off track", progress)

\* variant: the returned ratio is clamped to [0, 1]
Classify_Clamped(pace, progress) ==
    LET shown == IF FGe(progress, Fin(1, 1)) THEN Fin(1, 1)
                 ELSE IF FGe(Fin(0, 1), progress) THEN Fin(0, 1)
                 ELSE progress
    IN  IF FGe(pace, Fin(1, 1)) THEN Return("on track", shown)
        ELSE IF FGe(pace, Fin(1, 2)) THEN Return("needs acceleration", shown)
        ELSE Return("off track", shown)

\* the three-way classification on pace
Classify(pace, progress) ==
    IF FGe(pace, Fin(1, 1)) THEN Return("on track", progress)
    ELSE IF FGe(pace, Fin(1, 2)) THEN Return("needs acceleration", progress)
    ELSE Return("off track", progress)

\* years_done and years_total
YearsDone(ly) == Max1(ly.n - BASELINE_YEAR)

\* variant: the window is a year short
YearsTotal_Short == Max1(TARGET_YEAR - BASELINE_YEAR - 1)

YearsTotal == Max1(TARGET_YEAR - BASELINE_YEAR)

\* variant: the required rate is computed with floor division
ReqRate_FloorDiv(b, t, bt) ==
    LET diff == IF bt = "up" THEN FSub(t, b) ELSE FSub(b, t)
    IN  IF IsFin(diff) THEN Fin(diff.n \div (diff.d * YearsTotal), 1)
        ELSE FDiv(diff, Fin(YearsTotal, 1))

\* variant: the required rate is not mirrored for "down"
ReqRate_NotMirrored(b, t, bt) == FDiv(FSub(t, b), Fin(YearsTotal, 1))

\* "req_rate = (target - baseline) / years_total", mirrored for "down"
ReqRate(b, t, bt) ==
    IF bt = "up" THEN FDiv(FSub(t, b), Fin(YearsTotal, 1))
    ELSE FDiv(FSub(b, t), Fin(YearsTotal, 1))

\* "act_rate = (latest - baseline) / years_done", mirrored for "down"
ActRate(b, l, ly, bt) ==
    IF bt = "up" THEN FDiv(FSub(l, b), Fin(YearsDone(ly), 1))
    ELSE FDiv(FSub(b, l), Fin(YearsDone(ly), 1))

\* progress, by direction
Progress(b, l, t, bt) ==
    IF bt = "up" THEN ProgressUp(b, l, t) ELSE ProgressDown(b, l, t)

\* variant: the baseline year itself counts as elapsed
NoElapsedYears_Strict(ly) == IsNone(ly) \/ FLt(ly, Fin(BASELINE_YEAR, 1))

\* "latest_year is None or latest_year <= BASELINE_YEAR"
NoElapsedYears(ly) == IsNone(ly) \/ FLe(ly, Fin(BASELINE_YEAR, 1))

\* variant: only the blank string counts as no target
NoTarget_OnlyBlank(t) == t = EmptyStr

\* "target is None or target == ''"
NoTarget(t) == IsNone(t) \/ t = EmptyStr

progress_status(b, l, ly, t, bt) ==
    IF NoElapsedYears(ly)
    THEN Return("insufficient data", None)
    ELSE IF NoTarget(t)
    THEN Return("trend only", None)
    ELSE LET req_rate == ReqRate(b, t, bt)
             act_rate == ActRate(b, l, ly, bt)
             progress == Progress(b, l, t, bt)
         IN  IF Raised(req_rate) \/ Raised(act_rate) \/ Raised(progress)
             THEN Raise
             ELSE IF IsNone(progress) \/ NoneOrNan(req_rate) \/ NoneOrNan(act_rate)
             THEN Return("trend only", None)
             ELSE LET pace == Pace(act_rate, req_rate)
                  IN  IF Raised(pace) THEN Raise
                      ELSE Classify(pace, progress)

----------------------------------------------------------------------------
(* Inputs of progress_status *)

\* the values of the worked scenarios (maternal mortality 200 -> 70, and
\* the baseline 10 / target 10 degenerate window)
ScenarioVals == {10, 70, 100, 150, 190, 200}

FiniteVals == {Fin(i, 1) : i \in (-MaxVal..MaxVal) \cup ScenarioVals}
FloatVals == FiniteVals \cup {NaN, Inf(1), Inf(-1)}
Targets == FloatVals \cup {None, EmptyStr}
Years == {Fin(y, 1) : y \in (BASELINE_YEAR - YearsBefore)..(TARGET_YEAR + YearsAfter)}
            \cup {None}
Directions == {"up", "down"}

NotCalled == [status |-> "not called", progress |-> None, raised |-> FALSE]


\* the call of progress_status with the drawn arguments
Evaluate ==
    /\ pc = "eval_call"
    /\ ret' = progress_status(baseline, latest, latest_year, target, better)
    /\ pc' = "eval_done"
    /\ UNCHANGED <<baseline, latest, latest_year, target, better>>
    /\ UNCHANGED sdmxVars
    /\ UNCHANGED scoreVars
    /\ UNCHANGED extractVars
    /\ UNCHANGED callerVars
    /\ UNCHANGED getVars

----------------------------------------------------------------------------
(* The quick-status row of tab_overview, the one caller of progress_status *)

DEFAULT_COUNTRY == "IND"

\* the placeholder the row starts with (an em dash in the source)
Dash == "-"

\* "dropna(subset=["value"])": pd.to_numeric left NaN for a missing value
dropna(rows) == { r \in rows : ~IsNan(r.value) }

\* "sort_values("date")": the rows by ascending date (a country has one row
\* for a year)
RECURSIVE sort_values(_)
sort_values(rows) ==
    IF rows = {} THEN <<>>
    ELSE LET r == CHOOSE r \in rows : \A q \in rows : r.date.n <= q.date.n
         IN  <<r>> \o sort_values(rows \ {r})

latest_value(df, iso3) ==
    LET sub == sort_values(dropna({ r \in df : r.iso3 = iso3 }))
    IN  IF Len(sub) = 0 THEN <<None, None>>
        ELSE << sub[Len(sub)].date, sub[Len(sub)].value >>

value_at_or_after(df, iso3, year) ==
    LET sub == sort_values(dropna({ r \in df : r.iso3 = iso3 /\ r.date.n >= year }))
    IN  IF Len(sub) = 0 THEN <<None, None>>
        ELSE << sub[1].date, sub[1].value >>

\* "if b_v is not None and l_v is not None"
BothPresent(b_v, l_v) == ~IsNone(b_v) /\ ~IsNone(l_v)

\* "if df_i.empty: continue"
SkipRow ==
    /\ pc = "row_start"
    /\ df_i = {}
    /\ pc' = "row_skipped"
    /\ UNCHANGED callerVars
    /\ UNCHANGED getVars
    /\ UNCHANGED evalVars
    /\ UNCHANGED sdmxVars
    /\ UNCHANGED scoreVars
    /\ UNCHANGED extractVars

\* the body of the loop for one indicator, up to the values the row shows
QuickStatus ==
    /\ pc = "row_start"
    /\ df_i # {}
    /\ LET b == value_at_or_after(df_i, DEFAULT_COUNTRY, BASELINE_YEAR)
           l == latest_value(df_i, DEFAULT_COUNTRY)
           b_v == b[2]
           l_y == l[1]
           l_v == l[2]
           r == progress_status(b_v, l_v, l_y, target, better)
       IN  IF BothPresent(b_v, l_v)
           THEN /\ baseline' = b_v
                /\ latest' = l_v
                /\ latest_year' = l_y
                /\ ret' = r
                /\ row_status' = r.status
                /\ row_prog' = r.progress
           ELSE /\ row_status' = Dash
                /\ row_prog' = None
                /\ UNCHANGED <<baseline, latest, latest_year, ret>>
    /\ pc' = "row_done"
    /\ UNCHANGED <<df_i, target, better>>
    /\ UNCHANGED getVars
    /\ UNCHANGED sdmxVars
    /\ UNCHANGED scoreVars
    /\ UNCHANGED extractVars

\* bounds: the number of rows of a frame
MaxRows == 3

\* the rows of a frame: India's and a peer's, for the years around
\* BASELINE_YEAR, with a value or a missing value
Rows ==
    [ iso3 : {DEFAULT_COUNTRY, "CHN"},
      date : { Fin(y, 1) : y \in (BASELINE_YEAR - 1)..(BASELINE_YEAR + 1) },
      value : { NaN, Fin(1, 1), Fin(2, 1) } ]

Frames ==
    { f \in SUBSET Rows :
        /\ Cardinality(f) <= MaxRows
        /\ \A r, q \in f : (r.iso3 = q.iso3 /\ r.date = q.date) => r = q }

\* cfg.get("target2030")
CfgTargets == { None, Fin(2, 1) }

----------------------------------------------------------------------------
(* Strings are sequences of one-character strings *)

UpperTable ==
    [a |-> "A", b |-> "B", c |-> "C", d |-> "D", e |-> "E", f |-> "F",
     g |-> "G", h |-> "H", i |-> "I", j |-> "J", k |-> "K", l |-> "L",
     m |-> "M", n |-> "N", o |-> "O", p |-> "P", q |-> "Q", r |-> "R",
     s |-> "S", t |-> "T", u |-> "U", v |-> "V", w |-> "W", x |-> "X",
     y |-> "Y", z |-> "Z"]

\* str.upper()
Upper(s) ==
    [i \in 1..Len(s) |-> IF s[i] \in DOMAIN UpperTable THEN UpperTable[s[i]] ELSE s[i]]

\* "tok in s" on strings: tok occurs in s as a substring
Contains(tok, s) ==
    \E i \in 1..(Len(s) - Len(tok) + 1) : SubSeq(s, i, i + Len(tok) - 1) = tok

Digits == <<"0", "1", "2", "3", "4", "5", "6", "7", "8", "9">>

DigitVal(c) == (CHOOSE i \in 1..Len(Digits) : Digits[i] = c) - 1

\* int(s) for a string of decimal digits
RECURSIVE IntOf(_)
IntOf(s) ==
    IF Len(s) = 0 THEN 0
    ELSE 10 * IntOf(SubSeq(s, 1, Len(s) - 1)) + DigitVal(s[Len(s)])

\* s.split(":"): the pieces of s between the colons
RECURSIVE SplitColon(_)
SplitColon(s) ==
    IF \A i \in 1..Len(s) : s[i] # ":" THEN <<s>>
    ELSE LET c == CHOOSE i \in 1..Len(s) :
                      s[i] = ":" /\ \A j \in 1..(i - 1) : s[j] # ":"
         IN  <<SubSeq(s, 1, c - 1)>> \o SplitColon(SubSeq(s, c + 1, Len(s)))

\* "list(map(int, key.split(":"))) if key else []"
KeyIndices(key) ==
    IF Len(key) = 0 THEN <<>>
    ELSE LET parts == SplitColon(key)
         IN  [i \in 1..Len(parts) |-> IntOf(parts[i])]

\* the key string of an index tuple: the indices joined by ":"
RECURSIVE FormatKey(_)
FormatKey(t) ==
    IF Len(t) = 0 THEN <<>>
    ELSE IF Len(t) = 1 THEN <<Digits[t[1] + 1]>>
    ELSE <<Digits[t[1] + 1], ":">> \o FormatKey(Tail(t))

----------------------------------------------------------------------------
(* _score_series_key *)

total_tokens ==
    << <<"T">>, <<"T", "O", "T", "A", "L">>, <<"T", "O", "T", "L">>,
       <<"A", "L", "L">>, <<"B", "T", "S", "X">>,
       <<"A", "L", "L", "A", "R", "E", "A">>,
       <<"A", "L", "L", "A", "G", "E">> >>

REPORTING_TYPE ==
    <<"R", "E", "P", "O", "R", "T", "I", "N", "G", "_", "T", "Y", "P", "E">>

national_ids ==
    { <<"G">>, <<"N", "A", "T">>, <<"N", "A", "T", "I", "O", "N", "A", "L">> }

\* "any(tok in valid ...) or any(tok in valname ...)"
TotalLike(valid, valname) ==
    \/ \E t \in 1..Len(total_tokens) : Contains(total_tokens[t], valid)
    \/ \E t \in 1..Len(total_tokens) : Contains(total_tokens[t], valname)

\* did == "REPORTING_TYPE" and valid in ("G", "NAT", "NATIONAL")
NationalReporting(did, valid) ==
    did = REPORTING_TYPE /\ valid \in national_ids

\* variant: the id and the name each add 2 when they hold a total token
PositionScore_PerField(dim, ix) ==
    LET valmeta == dim.values[ix + 1]
        valid == Upper(valmeta.id)
        valname == Upper(valmeta.name)
        did == Upper(dim.id)
    IN  (IF TotalLike(valid, <<>>) THEN 2 ELSE 0)
        + (IF TotalLike(<<>>, valname) THEN 2 ELSE 0)
        + (IF NationalReporting(did, valid) THEN 3 ELSE 0)

\* what one pass of the loop body adds to score, for dimension dim and index ix
PositionScore(dim, ix) ==
    LET valmeta == dim.values[ix + 1]
        valid == Upper(valmeta.id)
        valname == Upper(valmeta.name)
        did == Upper(dim.id)
    IN  (IF TotalLike(valid, valname) THEN 2 ELSE 0)
        + (IF NationalReporting(did, valid) THEN 3 ELSE 0)

\* the loop over enumerate(series_dims) from position p (1-based) on,
\* leaving at the first position the key has no index for
RECURSIVE ScoreFrom(_, _, _)
ScoreFrom(dims, idx, p) ==
    IF p > Len(dims) \/ p > Len(idx) THEN 0
    ELSE PositionScore(dims[p], idx[p]) + ScoreFrom(dims, idx, p + 1)

_score_series_key(dims, key) == ScoreFrom(dims, KeyIndices(key), 1)


----------------------------------------------------------------------------
(* The best-key loop of _un_series_data_via_sdmx *)

\* None, as the value of best_key: no string equals it
NoneKey == <<"None">>

\* "ser.get('observations')" as a condition: a non-empty mapping
HasObservations(ser) == Len(ser.observations) > 0

\* variant: the observations of the series are not looked at
Replaces_AnySeries(score, bscore, ser) == score > bscore

\* variant: a later key with an equal score replaces the current best
Replaces_OnTie(score, bscore, ser) == score >= bscore /\ HasObservations(ser)

\* "score > best_score and ser.get('observations')"
Replaces(score, bscore, ser) == score > bscore /\ HasObservations(ser)

\* variant: best_score starts at 0
InitialBestScore_Zero == 1 - 1

\* "best_key, best_score = None, -1"
InitialBestScore == -1

\* the SDMX response has been parsed; "if not sers: return pd.DataFrame()"
CheckSeries ==
    /\ pc = "sdmx_parsed"
    /\ pc' = IF Len(sers) = 0 THEN "sdmx_empty" ELSE "sdmx_time"
    /\ outcome' = IF Len(sers) = 0 THEN "empty frame" ELSE outcome
    /\ UNCHANGED sdmxVars
    /\ UNCHANGED <<obs_dims, yr1, yr2, time_pos, obs_pos, recs>>
    /\ UNCHANGED evalVars
    /\ UNCHANGED callerVars
    /\ UNCHANGED getVars
    /\ UNCHANGED scoreVars

\* "best_key, best_score = None, -1"
StartChoose ==
    /\ pc = "sdmx_choose"
    /\ best_key' = NoneKey
    /\ best_score' = InitialBestScore
    /\ pos' = 0
    /\ pc' = "sdmx_loop"
    /\ UNCHANGED <<series_dims, sers>>
    /\ UNCHANGED extractVars
    /\ UNCHANGED evalVars
    /\ UNCHANGED callerVars
    /\ UNCHANGED getVars
    /\ UNCHANGED scoreVars

\* one iteration of "for k, ser in sers.items()"
ChooseStep ==
    /\ pc = "sdmx_loop"
    /\ pos < Len(sers)
    /\ LET item == sers[pos + 1]
           score == _score_series_key(series_dims, item.key)
       IN  IF Replaces(score, best_score, item.ser)
           THEN best_key' = item.key /\ best_score' = score
           ELSE UNCHANGED <<best_key, best_score>>
    /\ pos' = pos + 1
    /\ pc' = "sdmx_loop"
    /\ UNCHANGED <<series_dims, sers>>
    /\ UNCHANGED extractVars
    /\ UNCHANGED evalVars
    /\ UNCHANGED callerVars
    /\ UNCHANGED getVars
    /\ UNCHANGED scoreVars

\* the loop is exhausted; "if best_key is None: return pd.DataFrame()"
ChooseDone ==
    /\ pc = "sdmx_loop"
    /\ pos = Len(sers)
    /\ pc' = IF best_key = NoneKey THEN "sdmx_empty" ELSE "sdmx_chosen"
    /\ outcome' = IF best_key = NoneKey THEN "empty frame" ELSE outcome
    /\ UNCHANGED sdmxVars
    /\ UNCHANGED <<obs_dims, yr1, yr2, time_pos, obs_pos, recs>>
    /\ UNCHANGED evalVars
    /\ UNCHANGED callerVars
    /\ UNCHANGED getVars
    /\ UNCHANGED scoreVars

----------------------------------------------------------------------------
(* The time dimension and the extraction loop of _un_series_data_via_sdmx *)

TIME == <<"T", "I", "M", "E">>

\* s.startswith(prefix)
StartsWith(s, prefix) ==
    Len(s) >= Len(prefix) /\ SubSeq(s, 1, Len(prefix)) = prefix

\* d["id"].upper().startswith("TIME")
IsTimeDim(d) == StartsWith(Upper(d.id), TIME)

\* the loop "for i, d in enumerate(obs_dims)": the index (from 0) of the first
\* time dimension as <<i>>, or <<>> when the loop ends with time_pos None
FirstTimePos(dims) ==
    IF \E i \in 1..Len(dims) : IsTimeDim(dims[i])
    THEN << (CHOOSE i \in 1..Len(dims) :
                IsTimeDim(dims[i]) /\ \A j \in 1..(i - 1) : ~IsTimeDim(dims[j])) - 1 >>
    ELSE <<>>

\* "if time_pos is None: return pd.DataFrame()"
FindTime ==
    /\ pc = "sdmx_time"
    /\ time_pos' = FirstTimePos(obs_dims)
    /\ pc' = IF FirstTimePos(obs_dims) = <<>> THEN "sdmx_no_time" ELSE "sdmx_choose"
    /\ outcome' = IF FirstTimePos(obs_dims) = <<>> THEN "empty frame" ELSE outcome
    /\ UNCHANGED <<obs_dims, yr1, yr2, obs_pos, recs>>
    /\ UNCHANGED sdmxVars
    /\ UNCHANGED evalVars
    /\ UNCHANGED callerVars
    /\ UNCHANGED getVars
    /\ UNCHANGED scoreVars

\* time_values = obs_dims[time_pos]["values"]
time_values == obs_dims[time_pos[1] + 1].values

\* observations = sers[best_key].get("observations", {}), in mapping order
observations ==
    LET i == CHOOSE j \in 1..Len(sers) : sers[j].key = best_key
    IN  sers[i].ser.observations

\* year = int(time_values[idx[time_pos]]["id"]) for the observation key k
YearOf(k) == IntOf(time_values[KeyIndices(k)[time_pos[1] + 1] + 1].id)

\* "if v is None: continue"
Skipped(v) == IsNone(v)

ValueError == [k |-> "valueerror", n |-> 0, d |-> 1]

\* float(v) for a value of the response: a number is returned as it is, the
\* empty string is rejected
float(v) == IF IsFloat(v) THEN v ELSE ValueError

\* float(v) raises in the loop body for the observation ob
Rejected(ob) == ~Skipped(ob.val[1]) /\ float(ob.val[1]) = ValueError

\* the loop body: what one observation (k, val) makes of recs
Extracted(rs, ob) ==
    IF Skipped(ob.val[1]) THEN rs
    ELSE Append(rs, [date |-> YearOf(ob.key), value |-> float(ob.val[1])])

\* "observations = ...; recs = []"
ExtractStart ==
    /\ pc = "sdmx_chosen"
    /\ recs' = <<>>
    /\ obs_pos' = 0
    /\ pc' = "sdmx_extract"
    /\ UNCHANGED <<obs_dims, yr1, yr2, time_pos, outcome>>
    /\ UNCHANGED sdmxVars
    /\ UNCHANGED evalVars
    /\ UNCHANGED callerVars
    /\ UNCHANGED getVars
    /\ UNCHANGED scoreVars

\* one iteration of "for k, val in observations.items()"
\* and, when float(v) raises, "except Exception: return pd.DataFrame()"
ExtractStep ==
    /\ pc = "sdmx_extract"
    /\ obs_pos < Len(observations)
    /\ IF Rejected(observations[obs_pos + 1])
       THEN /\ outcome' = "empty frame"
            /\ pc' = "sdmx_except"
            /\ UNCHANGED <<recs, obs_pos>>
       ELSE /\ recs' = Extracted(recs, observations[obs_pos + 1])
            /\ obs_pos' = obs_pos + 1
            /\ pc' = "sdmx_extract"
            /\ UNCHANGED outcome
    /\ UNCHANGED <<obs_dims, yr1, yr2, time_pos>>
    /\ UNCHANGED sdmxVars
    /\ UNCHANGED evalVars
    /\ UNCHANGED callerVars
    /\ UNCHANGED getVars
    /\ UNCHANGED scoreVars

\* "return pd.DataFrame(recs)"
ExtractReturn ==
    /\ pc = "sdmx_extract"
    /\ obs_pos = Len(observations)
    /\ outcome' = "frame"
    /\ pc' = "sdmx_returned"
    /\ UNCHANGED <<obs_dims, yr1, yr2, time_pos, obs_pos, recs>>
    /\ UNCHANGED sdmxVars
    /\ UNCHANGED evalVars
    /\ UNCHANGED callerVars
    /\ UNCHANGED getVars
    /\ UNCHANGED scoreVars

----------------------------------------------------------------------------
(* _safe_get *)

\* 2 ** i
RECURSIVE Pow2(_)
Pow2(e) == IF e = 0 THEN 1 ELSE 2 * Pow2(e - 1)

\* variant: the delay grows with 2 * i
SleepTime_Linear(b, e) == Fin(b.n * (2 * e), b.d)

\* "backoff * (2 ** i)"
SleepTime(b, e) == Fin(b.n * Pow2(e), b.d)

\* what an attempt can raise, from requests.get or from raise_for_status
Exceptions == {"Timeout", "ConnectionError", "HTTPError"}

\* the responses an attempt can return
Responses == {"r1", "r2"}

NoResult == [kind |-> "running", val |-> "None"]

\* "for i in range(retries)" is entered once more, and the attempt passes
\* "r = requests.get(...); r.raise_for_status(); return r"
AttemptSucceeds ==
    /\ pc = "get_loop"
    /\ attempt_i < retries
    /\ \E r \in Responses :
          /\ requests' = Append(requests, [ok |-> TRUE, val |-> r])
          /\ get_ret' = [kind |-> "returned", val |-> r]
    /\ pc' = "get_returned"
    /\ UNCHANGED <<retries, backoff, attempt_i, last_exc, slept>>
    /\ UNCHANGED evalVars
    /\ UNCHANGED sdmxVars
    /\ UNCHANGED scoreVars
    /\ UNCHANGED extractVars
    /\ UNCHANGED callerVars

\* the attempt raises: "except Exception as e: last_exc = e;
\* time.sleep(backoff * (2 ** i))", and the loop moves on
AttemptFails ==
    /\ pc = "get_loop"
    /\ attempt_i < retries
    /\ \E e \in Exceptions :
          /\ requests' = Append(requests, [ok |-> FALSE, val |-> e])
          /\ last_exc' = e
    /\ slept' = Append(slept, SleepTime(backoff, attempt_i))
    /\ attempt_i' = attempt_i + 1
    /\ pc' = "get_loop"
    /\ UNCHANGED <<retries, backoff, get_ret>>
    /\ UNCHANGED evalVars
    /\ UNCHANGED sdmxVars
    /\ UNCHANGED scoreVars
    /\ UNCHANGED extractVars
    /\ UNCHANGED callerVars

\* the loop is exhausted: "raise last_exc" (raise None is a TypeError)
RaiseLast ==
    /\ pc = "get_loop"
    /\ attempt_i >= retries
    /\ get_ret' = [kind |-> "raised",
                   val |-> IF last_exc = "None" THEN "TypeError" ELSE last_exc]
    /\ pc' = "get_raised"
    /\ UNCHANGED <<retries, backoff, attempt_i, last_exc, requests, slept>>
    /\ UNCHANGED evalVars
    /\ UNCHANGED sdmxVars
    /\ UNCHANGED scoreVars
    /\ UNCHANGED extractVars
    /\ UNCHANGED callerVars

\* bounds: the largest retries of a call
MaxRetries == 3

\* the values of backoff: 0.6 (the default), 0.0 and 1.0
Backoffs == { Fin(3, 5), Fin(0, 1), Fin(1, 1) }

----------------------------------------------------------------------------
(* Cubes *)

\* bounds: the number of series of a cube
MaxSeries == 3

SexDim ==
    [id |-> <<"S", "E", "X">>,
     values |-> << [id |-> <<"F">>, name |-> <<"F", "e", "m", "a", "l", "e">>],
                   [id |-> <<"_", "T">>, name |-> <<"B", "o", "t", "h">>] >>]

ReportingDim ==
    [id |-> <<"R", "e", "p", "o", "r", "t", "i", "n", "g", "_", "T", "y", "p", "e">>,
     values |-> << [id |-> <<"G">>, name |-> <<"G", "l", "o", "b", "a", "l">>],
                   [id |-> <<"N">>, name |-> <<"N", "a", "t", "i", "o", "n", "a", "l">>],
                   [id |-> <<"n", "a", "t">>, name |-> <<>>] >>]

DimsChoices == { <<SexDim, ReportingDim>>, <<SexDim>> }

\* the series keys of the response: "", "i" and "i:j" with each index
\* inside its dimension
SeriesKeys ==
    { <<>> }
    \cup { <<Digits[i + 1]>> : i \in 0..(Len(SexDim.values) - 1) }
    \cup { <<Digits[i + 1], ":", Digits[j + 1]>> :
             i \in 0..(Len(SexDim.values) - 1),
             j \in 0..(Len(ReportingDim.values) - 1) }

\* a series' "observations": empty, or one observation of value 5.0
ObservationChoices ==
    { <<>>, << [key |-> <<"0">>, val |-> <<Fin(5, 1)>>] >> }

Items == [key : SeriesKeys, ser : [observations : ObservationChoices]]

\* an ordered mapping: no key twice
DistinctKeys(m) == \A i, j \in 1..Len(m) : i # j => m[i].key # m[j].key

RECURSIVE SeqsUpTo(_, _)
SeqsUpTo(S, n) ==
    IF n = 0 THEN { <<>> }
    ELSE LET shorter == SeqsUpTo(S, n - 1)
         IN  shorter \cup { Append(q, x) : q \in shorter, x \in S }

Cubes == { m \in SeqsUpTo(Items, MaxSeries) : DistinctKeys(m) }

\* the first year of the time dimension's values
FirstYear == BASELINE_YEAR - 1

YearId(y) == << Digits[(y \div 1000) + 1], Digits[((y \div 100) % 10) + 1],
                Digits[((y \div 10) % 10) + 1], Digits[(y % 10) + 1] >>

\* the values of the time dimension: three years, ascending
TimeValues == [i \in 1..3 |-> [id |-> YearId(FirstYear + i - 1)]]

TimePeriodDim ==
    [id |-> <<"T", "I", "M", "E", "_", "P", "E", "R", "I", "O", "D">>,
     values |-> TimeValues]

TimeLowerDim ==
    [id |-> <<"t", "i", "m", "e", "_", "p", "e", "r", "i", "o", "d">>,
     values |-> TimeValues]

ObsStatusDim ==
    [id |-> <<"O", "B", "S", "_", "S", "T", "A", "T", "U", "S">>,
     values |-> << [id |-> <<"A">>] >>]

\* the lists of observation dimensions: the time dimension alone, the time
\* dimension second (lower-case id), no time dimension, no dimension at all
ObsDimsChoices ==
    { <<TimePeriodDim>>, <<ObsStatusDim, TimeLowerDim>>, <<ObsStatusDim>>, <<>> }

\* bound: the number of observations of the series
MaxObs == 3

\* the observation keys of a response with observation dimensions ds: one
\* index for each dimension (one index when there is none)
ObsKeys(ds) ==
    { FormatKey(t) : t \in
        { t \in SeqsUpTo(0..2, Max1(Len(ds))) :
            /\ Len(t) = Max1(Len(ds))
            /\ \A p \in 1..Len(t) :
                  t[p] < (IF p <= Len(ds) THEN Len(ds[p].values) ELSE 3) } }

\* an observation: its key and its value list, whose first entry is the
\* value (null, the empty string, 3.0 or 5.0)
ObsRecords(ds) ==
    [key : ObsKeys(ds), val : { <<None>>, <<EmptyStr>>, <<Fin(3, 1)>>, <<Fin(5, 1)>> }]

ObservationMaps(ds) == { m \in SeqsUpTo(ObsRecords(ds), MaxObs) : DistinctKeys(m) }

\* the ranges of years asked for
YearRanges == { <<FirstYear + 1, FirstYear + 2>>, <<FirstYear, FirstYear + 2>> }

----------------------------------------------------------------------------
(* Specifications *)

EvalIdle ==
    /\ baseline = Fin(0, 1)
    /\ latest = Fin(0, 1)
    /\ latest_year = None
    /\ target = None
    /\ better = "up"
    /\ ret = NotCalled

SdmxIdle ==
    /\ series_dims = <<>>
    /\ sers = <<>>
    /\ pos = 0
    /\ best_key = NoneKey
    /\ best_score = InitialBestScore

ScoreIdle ==
    /\ score_key = <<>>
    /\ score_ret = 0

ExtractIdle ==
    /\ obs_dims = <<>>
    /\ yr1 = BASELINE_YEAR
    /\ yr2 = TARGET_YEAR
    /\ time_pos = <<>>
    /\ obs_pos = 0
    /\ recs = <<>>
    /\ outcome = "not called"

GetIdle ==
    /\ retries = 0
    /\ backoff = Fin(0, 1)
    /\ attempt_i = 0
    /\ last_exc = "None"
    /\ requests = <<>>
    /\ slept = <<>>
    /\ get_ret = [kind |-> "not called", val |-> "None"]

CallerIdle ==
    /\ df_i = {}
    /\ row_status = "not shown"
    /\ row_prog = None

\* progress_status on every combination of arguments
InitEval ==
    /\ pc = "eval_call"
    /\ baseline \in FloatVals
    /\ latest \in FloatVals
    /\ latest_year \in Years
    /\ target \in Targets
    /\ better \in Directions
    /\ ret = NotCalled
    /\ SdmxIdle
    /\ ScoreIdle
    /\ CallerIdle
    /\ GetIdle
    /\ ExtractIdle

NextEval == Evaluate

SpecEval == InitEval /\ [][NextEval]_vars

\* the best-key loop on every cube
InitSdmx ==
    /\ pc = "sdmx_parsed"
    /\ series_dims \in DimsChoices
    /\ sers \in Cubes
    /\ pos = 0
    /\ best_key = NoneKey
    /\ best_score = InitialBestScore
    /\ obs_dims = <<TimePeriodDim>>
    /\ yr1 = FirstYear
    /\ yr2 = FirstYear + 2
    /\ time_pos = <<>>
    /\ obs_pos = 0
    /\ recs = <<>>
    /\ outcome = "running"
    /\ EvalIdle
    /\ ScoreIdle
    /\ CallerIdle
    /\ GetIdle

NextSdmx ==
    \/ CheckSeries
    \/ FindTime
    \/ StartChoose
    \/ ChooseStep
    \/ ChooseDone
    \/ ExtractStart
    \/ ExtractStep
    \/ ExtractReturn

SpecSdmx == InitSdmx /\ [][NextSdmx]_vars

\* a series dimension whose id is not REPORTING_TYPE, with a value id "g"
AreaDim ==
    [id |-> <<"U", "R", "B", "A", "N", "I", "S", "A", "T", "I", "O", "N">>,
     values |-> << [id |-> <<"A", "L", "L", "A", "R", "E", "A">>,
                    name |-> <<"A", "l", "l", " ", "a", "r", "e", "a", "s">>],
                   [id |-> <<"g">>, name |-> <<"R", "u", "r", "a", "l">>] >>]

\* bound: the number of indices of a series key given to _score_series_key
MaxKeyLen == 3

ScoreDims == {SexDim, ReportingDim, AreaDim}

\* the lists of series dimensions: up to three different dimensions, in any order
ScoreDimLists ==
    { ds \in SeqsUpTo(ScoreDims, Cardinality(ScoreDims)) :
        \A i, j \in 1..Len(ds) : i # j => ds[i] # ds[j] }

\* the index tuples of up to MaxKeyLen indices that lie inside the dimensions
\* of ds (an index beyond the last dimension is 0 or 1)
IndexTuples(ds) ==
    { t \in SeqsUpTo(0..2, MaxKeyLen) :
        \A p \in 1..Len(t) :
            t[p] < (IF p <= Len(ds) THEN Len(ds[p].values) ELSE 2) }

\* a call of _score_series_key(series_dims, key)
Score ==
    /\ pc = "score_call"
    /\ score_ret' = _score_series_key(series_dims, score_key)
    /\ pc' = "score_done"
    /\ UNCHANGED <<series_dims, sers, pos, best_key, best_score, score_key>>
    /\ UNCHANGED evalVars
    /\ UNCHANGED callerVars
    /\ UNCHANGED getVars
    /\ UNCHANGED extractVars

\* _score_series_key on every list of dimensions and every key inside it
InitScore ==
    /\ pc = "score_call"
    /\ series_dims \in ScoreDimLists
    /\ score_key \in { FormatKey(t) : t \in IndexTuples(series_dims) }
    /\ score_ret = 0
    /\ sers = <<>>
    /\ pos = 0
    /\ best_key = NoneKey
    /\ best_score = InitialBestScore
    /\ EvalIdle
    /\ ExtractIdle
    /\ CallerIdle
    /\ GetIdle

NextScore == Score

SpecScore == InitScore /\ [][NextScore]_vars

\* the whole of _un_series_data_via_sdmx on a cube of one series, for every
\* list of observation dimensions, every asked range of years and every
\* ordered mapping of up to MaxObs observations
InitExtract ==
    /\ pc = "sdmx_parsed"
    /\ series_dims = <<SexDim>>
    /\ obs_dims \in ObsDimsChoices
    /\ sers \in { << [key |-> <<"1">>, ser |-> [observations |-> obs]] >> :
                    obs \in ObservationMaps(obs_dims) }
    /\ \E r \in YearRanges : yr1 = r[1] /\ yr2 = r[2]
    /\ pos = 0
    /\ best_key = NoneKey
    /\ best_score = InitialBestScore
    /\ time_pos = <<>>
    /\ obs_pos = 0
    /\ recs = <<>>
    /\ outcome = "running"
    /\ EvalIdle
    /\ ScoreIdle
    /\ CallerIdle
    /\ GetIdle

SpecExtract == InitExtract /\ [][NextSdmx]_vars

\* one quick-status row, for every frame and every configured target
InitCaller ==
    /\ pc = "row_start"
    /\ df_i \in Frames
    /\ row_status = "not shown"
    /\ row_prog = None
    /\ baseline = Fin(0, 1)
    /\ latest = Fin(0, 1)
    /\ latest_year = None
    /\ target \in CfgTargets
    /\ better \in Directions
    /\ ret = NotCalled
    /\ SdmxIdle
    /\ ScoreIdle
    /\ ExtractIdle
    /\ GetIdle

NextCaller == SkipRow \/ QuickStatus

SpecCaller == InitCaller /\ [][NextCaller]_vars

\* a call of _safe_get, for every retries and backoff
InitSafeGet ==
    /\ pc = "get_loop"
    /\ retries \in 0..MaxRetries
    /\ backoff \in Backoffs
    /\ attempt_i = 0
    /\ last_exc = "None"
    /\ requests = <<>>
    /\ slept = <<>>
    /\ get_ret = NoResult
    /\ EvalIdle
    /\ SdmxIdle
    /\ ScoreIdle
    /\ ExtractIdle
    /\ CallerIdle

NextSafeGet == AttemptSucceeds \/ AttemptFails \/ RaiseLast

SpecSafeGet == InitSafeGet /\ [][NextSafeGet]_vars

Init == InitEval \/ InitSdmx \/ InitScore \/ InitExtract \/ InitCaller \/ InitSafeGet

Next == NextEval \/ NextSdmx \/ NextScore \/ NextCaller \/ NextSafeGet

Spec == Init /\ [][Next]_vars


----------------------------------------------------------------------------
(* Claims about progress_status (checked under SpecEval) *)

Returned == pc = "eval_done"

Zero == Fin(0, 1)

\* the three inputs of the rate computation are finite numbers
FiniteInputs == IsFin(baseline) /\ IsFin(latest) /\ IsFin(target)

\* latest_year is present and after the baseline year
YearAfterBaseline == IsFin(latest_year) /\ latest_year.n > 2015

\* the distance covered and the distance required, in the good direction
\* (the inputs of the model are integers, so their denominators are 1)
Covered == IF better = "up" THEN latest.n - baseline.n ELSE baseline.n - latest.n
Required == IF better = "up" THEN target.n - baseline.n ELSE baseline.n - target.n

years_elapsed == IF latest_year.n - 2015 > 1 THEN latest_year.n - 2015 ELSE 1

\* pace >= 1 and pace >= 1/2 for pace = (Covered / years_elapsed) / (Required / 15),
\* cleared of denominators
PaceAtLeastOne ==
    IF Required > 0 THEN Covered * 15 >= Required * years_elapsed
    ELSE Covered * 15 <= Required * years_elapsed
PaceAtLeastHalf ==
    IF Required > 0 THEN 2 * Covered * 15 >= Required * years_elapsed
    ELSE 2 * Covered * 15 <= Required * years_elapsed

Args(b, l, y, t, dir) ==
    /\ baseline = Fin(b, 1)
    /\ latest = Fin(l, 1)
    /\ latest_year = Fin(y, 1)
    /\ target = Fin(t, 1)
    /\ better = dir

\* C1: a call whose latest_year is absent or <= 2015 returns insufficient
\* data with no ratio, whatever baseline, latest, target and direction are.
C1_InsufficientData ==
    (Returned /\ (IsNone(latest_year) \/ (IsFin(latest_year) /\ latest_year.n <= 2015)))
        => ret = Return("insufficient data", None)

C1_Witness ==
    /\ Returned
    /\ latest_year = Fin(2015, 1)
    /\ IsFin(target) /\ IsFin(baseline) /\ IsFin(latest) /\ target # baseline
    /\ ret.status = "insufficient data"

\* C2 as stated: every call with target absent returns trend only with no
\* ratio.
C2_Original ==
    (Returned /\ IsNone(target)) => ret = Return("trend only", None)

\* C2 amended: every call with target absent and latest_year present and
\* after 2015 returns trend only with no ratio (with latest_year absent or
\* <= 2015 the call returns insufficient data, target absent or not).
C2_TrendOnlyAfterBaseline ==
    (Returned /\ IsNone(target) /\ YearAfterBaseline)
        => ret = Return("trend only", None)

C2_Witness ==
    /\ Returned
    /\ IsNone(target)
    /\ latest_year = Fin(2016, 1)
    /\ ret.status = "trend only"

\* C3: a call that reaches classification (latest_year > 2015, target
\* present and different from baseline, finite inputs) returns exactly one
\* of the three statuses: on track iff pace >= 1.0, needs acceleration iff
\* 0.5 <= pace < 1.0, off track iff pace < 0.5, for pace = actual_rate /
\* required_rate over years_total = 15 and years_elapsed = max(1,
\* latest_year - 2015); and the three worked scenarios come out as stated.
C3_Classification ==
    /\ (Returned /\ FiniteInputs /\ YearAfterBaseline /\ target # baseline)
          => /\ ret.status \in {"on track", "needs acceleration", "off track"}
             /\ ret.status = "on track" <=> PaceAtLeastOne
             /\ ret.status = "needs acceleration" <=> (PaceAtLeastHalf /\ ~PaceAtLeastOne)
             /\ ret.status = "off track" <=> ~PaceAtLeastHalf
    /\ (Returned /\ Args(200, 100, 2023, 70, "down")) => ret.status = "on track"
    /\ (Returned /\ Args(200, 150, 2020, 70, "down")) => ret.status = "on track"
    /\ (Returned /\ Args(200, 190, 2017, 70, "down")) => ret.status = "needs acceleration"

C3_Witness ==
    /\ Returned
    /\ Args(200, 190, 2017, 70, "down")
    /\ ret.status = "needs acceleration"

\* C4 as stated: evaluate(baseline=0, latest=70, latest_year=2025,
\* target=70, decreasing-is-better) yields a negative ratio and off track.
C4_Original ==
    (Returned /\ Args(0, 70, 2025, 70, "down"))
        => (FLt(ret.progress, Zero) /\ ret.status = "off track")

\* C4 amended: that call yields the ratio 1 and on track: baseline - latest
\* and baseline - target are both -70, so the ratio is (-70) / (-70) = 1 and
\* the pace (-7) / (-70/15) = 1.5.
C4_RatioOneOnTrack ==
    (Returned /\ Args(0, 70, 2025, 70, "down"))
        => (FEq(ret.progress, Fin(1, 1)) /\ ret.status = "on track")

C4_Witness ==
    /\ Returned
    /\ Args(0, 70, 2025, 70, "down")
    /\ ret.status = "on track"
    /\ ~FLt(ret.progress, Zero)

\* C5: whenever the returned ratio is negative, for either direction and
\* any latest_year > 2015, the pace is negative and the status is off track.
C5_NegativeRatioOffTrack ==
    (Returned /\ ~ret.raised /\ FLt(ret.progress, Zero))
        => /\ ret.status = "off track"
           /\ FLt(Pace(ActRate(baseline, latest, latest_year, better),
                       ReqRate(baseline, target, better)), Zero)

C5_Witness ==
    /\ Returned
    /\ better = "down"
    /\ FiniteInputs
    /\ latest.n > baseline.n /\ target.n < baseline.n
    /\ FLt(ret.progress, Zero)
    /\ ret.status = "off track"

\* C6: with target present and equal to baseline and latest_year > 2015,
\* the call returns trend only with no ratio, for both directions and every
\* latest value, and no division by zero is raised.
C6_ZeroWidthWindow ==
    (Returned /\ YearAfterBaseline /\ IsFloat(target) /\ FEq(target, baseline))
        => (~ret.raised /\ ret = Return("trend only", None))

C6_Witness ==
    /\ Returned
    /\ Args(10, 10, 2020, 10, "up")
    /\ ret = Return("trend only", None)

\* C7: whenever one of the three classified statuses is returned (finite
\* inputs), the returned ratio is exactly (latest - baseline) / (target -
\* baseline) for "up" and (baseline - latest) / (baseline - target) for
\* "down": it is not clamped to [0, 1].
C7_RatioUnclamped ==
    (Returned /\ FiniteInputs
        /\ ret.status \in {"on track", "needs acceleration", "off track"})
        => /\ IsFin(ret.progress)
           /\ Required # 0
           /\ ret.progress.n * Required = Covered * ret.progress.d

C7_Witness ==
    /\ Returned
    /\ FiniteInputs
    /\ ret.status = "on track"
    /\ FLt(Fin(1, 1), ret.progress)


----------------------------------------------------------------------------
(* Claims about the best-key loop (checked under SpecSdmx) *)

\* the loop ran to its end and a key was chosen / no key was chosen
KeyChosen == pc = "sdmx_chosen"
NothingChosen == pc = "sdmx_empty"

NonEmpty(i) == Len(sers[i].ser.observations) > 0
ScoreOf(i) == _score_series_key(series_dims, sers[i].key)

\* the position of the chosen key in the iteration order
IsBest(i) == sers[i].key = best_key

\* C8: the chosen key has a non-empty observation list and a score at least
\* that of every other key with a non-empty observation list, whatever the
\* iteration order; so a key with an empty list is never chosen, even with
\* the highest score, and a higher-scoring non-empty key that comes later
\* replaces a lower-scoring earlier one.
C8_BestNonEmptyKey ==
    KeyChosen =>
        \E i \in 1..Len(sers) :
            /\ IsBest(i)
            /\ NonEmpty(i)
            /\ best_score = ScoreOf(i)
            /\ \A j \in 1..Len(sers) : NonEmpty(j) => ScoreOf(i) >= ScoreOf(j)

C8_Witness ==
    /\ KeyChosen
    /\ \E i, j, e \in 1..Len(sers) :
          /\ i < j
          /\ NonEmpty(i) /\ ScoreOf(i) < ScoreOf(j)
          /\ IsBest(j)
          /\ ~NonEmpty(e) /\ ScoreOf(e) > ScoreOf(j)

\* C9: when several keys with non-empty observation lists share the maximal
\* score, the chosen key is the first of them in the iteration order.
C9_FirstSeenWinsTies ==
    KeyChosen =>
        \A i \in 1..Len(sers) :
            IsBest(i) =>
                \A j \in 1..(i - 1) : ~(NonEmpty(j) /\ ScoreOf(j) = ScoreOf(i))

C9_Witness ==
    /\ KeyChosen
    /\ \E i, j \in 1..Len(sers) :
          /\ i < j
          /\ IsBest(i)
          /\ NonEmpty(j) /\ ScoreOf(j) = ScoreOf(i)

\* C10: no key is chosen (the SDMX path returns an empty frame) exactly
\* when no key of the cube has a non-empty observation list; with at least
\* one non-empty list, also of a key scoring 0, a key is chosen.
C10_NoneIffAllEmpty ==
    /\ NothingChosen => \A i \in 1..Len(sers) : ~NonEmpty(i)
    /\ KeyChosen => \E i \in 1..Len(sers) : NonEmpty(i)
    /\ (pc = "sdmx_loop" /\ pos = Len(sers))
          => (best_key = NoneKey <=> \A i \in 1..Len(sers) : ~NonEmpty(i))

C10_Witness ==
    /\ KeyChosen
    /\ best_score = 0
    /\ \E i \in 1..Len(sers) : ~NonEmpty(i) /\ ScoreOf(i) > 0


----------------------------------------------------------------------------
(* Claims about _score_series_key (checked under SpecScore) *)

Scored == pc = "score_done"

\* the rule of the claim applied by hand to each value of the catalogue:
\*   SEX:            "F"/"Female" 0;  "_T"/"Both" 2 (id and name both hold T)
\*   Reporting_Type: "G"/"Global" 3;  "N"/"National" 2 (name holds T, id is
\*                   not G/NAT/NATIONAL);  "nat"/"" 2 + 3
\*   URBANISATION:   "ALLAREA"/"All areas" 2;  "g"/"Rural" 0 (the dimension
\*                   is not REPORTING_TYPE)
ExpectedPoints(dim, ix) ==
    IF dim = SexDim THEN <<0, 2>>[ix + 1]
    ELSE IF dim = ReportingDim THEN <<3, 2, 5>>[ix + 1]
    ELSE <<2, 0>>[ix + 1]

\* the index tuple the key was written from
KeyTuple == CHOOSE t \in IndexTuples(series_dims) : FormatKey(t) = score_key

RECURSIVE ExpectedSum(_, _, _)
ExpectedSum(ds, t, n) ==
    IF n = 0 THEN 0
    ELSE ExpectedSum(ds, t, n - 1) + ExpectedPoints(ds[n], t[n])

MinLen == IF Len(series_dims) < Len(KeyTuple) THEN Len(series_dims) ELSE Len(KeyTuple)

\* C11: score(dimensions, series_key) is the sum, over the positions below
\* min(len(dimensions), len(series_key)), of 2 if the upper-cased value id or
\* name holds a total token (once per position) plus 3 if the dimension is
\* REPORTING_TYPE and the value id is G, NAT or NATIONAL (both
\* case-insensitive); a key shorter than the dimension list, the empty key
\* included, stops early, and the score is 0 when nothing matches.
C11_ScoreIsSumOfPoints ==
    Scored => score_ret = ExpectedSum(series_dims, KeyTuple, MinLen)

C11_Witness ==
    /\ Scored
    /\ series_dims = <<ReportingDim, SexDim, AreaDim>>
    /\ score_key = <<"2", ":", "1">>
    /\ score_ret = 7


----------------------------------------------------------------------------
(* Claims about the time dimension and the extraction loop (checked under
   SpecExtract) *)

\* the function returned pd.DataFrame(recs) / returned at "time_pos is None"
FrameReturned == pc = "sdmx_returned"
NoTimeReturned == pc = "sdmx_no_time"

\* the observation dimensions hold no dimension whose id starts with TIME:
\* of the lists of the model, the list <<OBS_STATUS>> and the empty list
NoTimeDimension == obs_dims \in { <<ObsStatusDim>>, <<>> }

\* the rows of the frame the function returned
frame == IF outcome = "frame" THEN recs ELSE <<>>

NonNull(ob) == ob.val[1] # None

\* C12 as stated: with no observation dimension whose id starts with TIME,
\* the function fails with MissingTimeDimension, which reaches the caller; it
\* does not return an empty result.
C12_Original ==
    (NoTimeDimension /\ NoTimeReturned) => outcome = "MissingTimeDimension"

\* C13 as stated: every returned observation has yr1 <= year <= yr2.
C13_Original ==
    FrameReturned => \A j \in 1..Len(frame) : yr1 <= frame[j].date /\ frame[j].date <= yr2

\* C14 as stated: once the function has returned, the frame holds no row for
\* a record whose value is null and exactly one row for every record of the
\* chosen series whose value is non-null.
C14_Original ==
    (pc \in {"sdmx_returned", "sdmx_except"}) =>
        /\ \A j \in 1..Len(frame) : frame[j].value # None
        /\ Len(frame) = Len(SelectSeq(observations, NonNull))

\* C15 as stated: the returned sequence is in ascending order of year for
\* every order of the raw observation records.
C15_Original ==
    FrameReturned =>
        \A i, j \in 1..Len(frame) : i < j => frame[i].date <= frame[j].date


----------------------------------------------------------------------------
(* Further claims about progress_status (checked under SpecEval) *)

NanOrInf(x) == IsNan(x) \/ IsInf(x)

\* C17 as stated: when the rate computation is reached (latest_year after
\* the baseline year, a numeric target) and baseline, latest or target is NaN
\* or infinite, progress_status returns trend only with ratio None.
C17_Original ==
    (/\ Returned
     /\ YearAfterBaseline
     /\ IsFloat(target)
     /\ (NanOrInf(baseline) \/ NanOrInf(latest) \/ NanOrInf(target)))
        => ret = Return("trend only", None)

\* the call went past the NaN guard to the pace computation and returned one
\* of the three classified statuses
PaceReached ==
    Returned /\ ret.status \in {"on track", "needs acceleration", "off track"}

----------------------------------------------------------------------------
(* Claims about the caller of progress_status (checked under SpecCaller) *)

RowDone == pc = "row_done"

\* the frame holds no value of the focal country at or after the baseline
\* year / no value of the focal country at all
BaselineUnavailable ==
    ~\E r \in df_i :
        r.iso3 = DEFAULT_COUNTRY /\ r.date.n >= BASELINE_YEAR /\ r.value # NaN

LatestUnavailable ==
    ~\E r \in df_i : r.iso3 = DEFAULT_COUNTRY /\ r.value # NaN

\* C16 as stated: when the baseline value or the latest value of the focal
\* country is unavailable, the caller does not call progress_status and
\* reports the status insufficient data; progress_status is only called with
\* both values present.
C16_Original ==
    RowDone =>
        /\ (BaselineUnavailable \/ LatestUnavailable) =>
              (ret = NotCalled /\ row_status = "insufficient data")
        /\ (ret # NotCalled) => (IsFloat(baseline) /\ IsFloat(latest))


----------------------------------------------------------------------------
(* Claims about _safe_get (checked under SpecSafeGet) *)

GetCalled == pc \in {"get_loop", "get_returned", "get_raised"}

Failed(j) == ~requests[j].ok

\* C21: with retries = n >= 1, _safe_get makes at most n attempts, one after
\* the other; no attempt follows one that succeeded, and the response of the
\* first attempt that succeeds is returned; after the i-th failed attempt
\* (i from 0) it sleeps backoff * 2^i (the first sleep is backoff, each later
\* one twice the one before); when all n attempts have failed it raises the
\* exception of the last attempt.
C21_BoundedRetries ==
    (GetCalled /\ retries >= 1) =>
        /\ Len(requests) <= retries
        /\ \A j \in 1..(Len(requests) - 1) : Failed(j)
        /\ Len(slept) = Cardinality({ j \in 1..Len(requests) : Failed(j) })
        /\ Len(slept) >= 1 => slept[1] = backoff
        /\ \A j \in 1..(Len(slept) - 1) :
              slept[j + 1].n * slept[j].d = 2 * slept[j].n * slept[j + 1].d
        /\ pc = "get_returned" =>
              /\ requests[Len(requests)].ok
              /\ get_ret = [kind |-> "returned", val |-> requests[Len(requests)].val]
        /\ pc = "get_raised" =>
              /\ Len(requests) = retries
              /\ \A j \in 1..retries : Failed(j)
              /\ get_ret = [kind |-> "raised", val |-> requests[retries].val]
        /\ pc = "get_loop" => get_ret = NoResult

\* three attempts fail, the first and the last with different exceptions
C21_Witness ==
    /\ pc = "get_raised"
    /\ retries = 3
    /\ backoff = Fin(3, 5)
    /\ requests[1].val # requests[3].val
    /\ slept = << Fin(3, 5), Fin(6, 5), Fin(12, 5) >>
    /\ get_ret.val = requests[3].val

====
